---- MODULE Spec2Model ----
(***************************************************************************)
(* Model of amazon-test.ts: one run of testAmazonSearchBar (ChromeDriver   *)
(* start, WebdriverIO session, navigation, selector loop, inspection,      *)
(* observation hold, catch/finally teardown) and the top-level             *)
(* then/catch that maps the promise to a process exit code.                *)
(*                                                                         *)
(* Every awaited remote command is one step; its result (returns, throws,  *)
(* or the value it returns) is an input chosen by the environment.         *)
(***************************************************************************)
EXTENDS Integers, FiniteSets, Sequences, TLC

\* ---------------------------------------------------------------- bounds
\* process ids the spawned ChromeDriver may get
MaxPid == 1
\* calls of stopChromeDriver made by the stop harness (SpecStop)
MaxStopCalls == 4
\* calls of startChromeDriver made by the stop harness (SpecStop)
MaxStartCalls == 2

\* ------------------------------------------------------ program constants
\* selectors = [ ... ] has five entries
NumSelectors == 5
\* let chromedriverProcess: any = null
NullProc == 0
\* let searchBar;   (undefined until browser.$ returns)
NoElement == 0

Selectors == 1..NumSelectors
\* the attributes in the order their getAttribute calls are made
ReadOrder == <<"placeholder", "id", "name">>
Attrs == {ReadOrder[k] : k \in 1..Len(ReadOrder)}
\* what getAttribute can return: null (attribute absent), the empty string,
\* or a non-empty string
AttrValues == {"null", "", "text"}
Pids == 1..MaxPid
NoError == "none"

VARIABLES
  pc,                  \* position of the run
  chromedriverProcess, \* module-level handle: NullProc or the pid
  server,              \* lifecycle of the ChromeDriver subprocess
  browser,             \* TRUE when the local `browser` is assigned
  session,             \* lifecycle of the remote session
  dom,                 \* selectors that have an existing element on the page
  idx,                 \* selector the for..of loop is at
  searchBar,           \* selector whose handle `searchBar` holds
  searchBarFound,      \* the flag of the same name
  status,              \* per selector: how far its attempt got
  faulted,             \* selectors whose attempt was cut short by a throw
                       \* or by the element no longer existing at re-check
  tries,               \* per selector: attempts begun (browser.$ calls)
  pending,             \* error the function is currently completing with
  caught,              \* error the catch block of the run received
  isVisible,           \* what the visibility check learned
  inspected,           \* selector whose handle was inspected
  attrsRead,           \* getAttribute calls that returned
  attrsLogged,         \* TRUE when the three attribute lines were printed
  attrValue,           \* per attribute: what its getAttribute call did
  reported,            \* per attribute: the value printed for it
  probe,               \* what the #nav-main probe learned
  attempted,           \* operations that have been attempted so far
  closeAttempts,       \* deleteSession requests sent
  stopCalls,           \* calls of stopChromeDriver
  startCalls,          \* calls of startChromeDriver
  killCount,           \* process.kill signals sent
  killErrors,          \* process.kill errors swallowed by stopChromeDriver
  stopRaised,          \* TRUE when stopChromeDriver threw to its caller
  exitCode,            \* -1 until process.exit, then its argument
  exitCount            \* calls of process.exit

vars == <<pc, chromedriverProcess, server, browser, session, dom, idx,
          searchBar, searchBarFound, status, faulted, tries, pending, caught,
          isVisible, inspected, attrsRead, attrsLogged, attrValue, reported,
          probe, attempted,
          closeAttempts, stopCalls, startCalls, killCount, killErrors,
          stopRaised, exitCode, exitCount>>

\* variables of the selector loop
loopVars == <<idx, searchBar, searchBarFound, status, faulted, tries>>
\* variables of the inspection
inspVars == <<isVisible, inspected, attrsRead, attrsLogged, attrValue,
              reported>>
\* variables of the supervisor
procVars == <<chromedriverProcess, server, stopCalls, startCalls, killCount,
              killErrors, stopRaised>>
\* variables of the exit
exitVars == <<exitCode, exitCount>>

\* ------------------------------------------------------------------ Init
InitRun(d) ==
  /\ chromedriverProcess = NullProc
  /\ server = "Unstarted"
  /\ browser = FALSE
  /\ session = "Unopened"
  /\ dom = d
  /\ idx = 1
  /\ searchBar = NoElement
  /\ searchBarFound = FALSE
  /\ status = [s \in Selectors |-> "Pending"]
  /\ faulted = {}
  /\ tries = [s \in Selectors |-> 0]
  /\ pending = NoError
  /\ caught = NoError
  /\ isVisible = "unchecked"
  /\ inspected = NoElement
  /\ attrsRead = 0
  /\ attrsLogged = FALSE
  /\ attrValue = [a \in Attrs |-> "unread"]
  /\ reported = [a \in Attrs |-> "unlogged"]
  /\ probe = "unprobed"
  /\ attempted = {}
  /\ closeAttempts = 0
  /\ stopCalls = 0
  /\ startCalls = 0
  /\ killCount = 0
  /\ killErrors = 0
  /\ stopRaised = FALSE
  /\ exitCode = -1
  /\ exitCount = 0

Init ==
  /\ pc = "start"
  /\ \E d \in SUBSET Selectors : InitRun(d)

\* ------------------------------------------------------------ supervisor
\* stopChromeDriver without the null guard
stopChromeDriverNoGuard(proc, killThrows) ==
  [signal |-> TRUE, raised |-> FALSE, swallowed |-> killThrows]

\* stopChromeDriver without the try/catch around process.kill
stopChromeDriverNoCatch(proc, killThrows) ==
  IF proc # NullProc
    THEN [signal |-> TRUE, raised |-> killThrows, swallowed |-> FALSE]
    ELSE [signal |-> FALSE, raised |-> FALSE, swallowed |-> FALSE]

\* stopChromeDriver(): what one call does, given the module-level handle and
\* whether process.kill throws.  signal: process.kill was called; raised: the
\* call threw to its caller; swallowed: an error was caught and logged.
\* The handle is left as it is: nothing resets chromedriverProcess.
stopChromeDriver(proc, killThrows) ==
  IF proc # NullProc
    THEN [signal |-> TRUE, raised |-> FALSE, swallowed |-> killThrows]
    ELSE [signal |-> FALSE, raised |-> FALSE, swallowed |-> FALSE]

\* the effect of one call of stopChromeDriver on the supervisor's state
ApplyStop(killThrows) ==
  LET r == stopChromeDriver(chromedriverProcess, killThrows) IN
  /\ stopCalls' = stopCalls + 1
  /\ killCount' = killCount + (IF r.signal THEN 1 ELSE 0)
  /\ killErrors' = killErrors + (IF r.swallowed THEN 1 ELSE 0)
  /\ stopRaised' = r.raised
  /\ server' = IF r.signal /\ ~killThrows THEN "Stopped" ELSE server
  /\ UNCHANGED chromedriverProcess

\* ------------------------------------------------------------ the run
\* an error thrown inside the try body: control goes to the catch block
Throw(err) ==
  /\ pending' = err
  /\ pc' = "catch"

\* startChromeDriver() returning right after the spawn, without the timer
StartChromeDriverNoSettle ==
  /\ pc = "start"
  /\ attempted' = attempted \cup {"start"}
  /\ startCalls' = startCalls + 1
  /\ \E ok \in BOOLEAN, pid \in Pids :
       IF ok
         THEN /\ chromedriverProcess' = pid
              /\ server' = "Starting"
              /\ pc' = "open"
              /\ UNCHANGED pending
         ELSE /\ server' = "StartFailed"
              /\ Throw("ServerStartError")
              /\ UNCHANGED chromedriverProcess
  /\ UNCHANGED <<browser, session, dom, loopVars, caught, inspVars, probe,
                 closeAttempts, stopCalls, killCount, killErrors, stopRaised,
                 exitVars>>

\* startChromeDriver(), up to the await of start([...]): the handle is
\* assigned only when start resolves; a rejection is logged and rethrown
StartChromeDriver ==
  /\ pc = "start"
  /\ attempted' = attempted \cup {"start"}
  /\ startCalls' = startCalls + 1
  /\ \E ok \in BOOLEAN, pid \in Pids :
       IF ok
         THEN /\ chromedriverProcess' = pid
              /\ server' = "Starting"
              /\ pc' = "start_settle"
              /\ UNCHANGED pending
         ELSE /\ server' = "StartFailed"
              /\ Throw("ServerStartError")
              /\ UNCHANGED chromedriverProcess
  /\ UNCHANGED <<browser, session, dom, loopVars, caught, inspVars, probe,
                 closeAttempts, stopCalls, killCount, killErrors, stopRaised,
                 exitVars>>

\* startChromeDriver(), the one second timer after the spawn
StartSettle ==
  /\ pc = "start_settle"
  /\ server' = "Running"
  /\ pc' = "open"
  /\ UNCHANGED <<chromedriverProcess, browser, session, dom, loopVars,
                 pending, caught, inspVars, probe, attempted, closeAttempts,
                 stopCalls, startCalls, killCount, killErrors, stopRaised,
                 exitVars>>

\* browser = await remote(options); if (!browser) throw ...
OpenSession ==
  /\ pc = "open"
  /\ attempted' = attempted \cup {"open"}
  /\ \E res \in {"session", "throws", "falsy"} :
       IF res = "session"
         THEN /\ browser' = TRUE
              /\ session' = "Open"
              /\ pc' = "navigate"
              /\ UNCHANGED pending
         ELSE /\ browser' = FALSE
              /\ session' = "OpenFailed"
              /\ Throw("SessionOpenError")
  /\ UNCHANGED <<procVars, dom, loopVars, caught, inspVars, probe,
                 closeAttempts, exitVars>>

\* await browser.url('https://www.amazon.com')
Navigate ==
  /\ pc = "navigate"
  /\ attempted' = attempted \cup {"navigate"}
  /\ \E ok \in BOOLEAN :
       IF ok THEN pc' = "page_pause" /\ UNCHANGED pending
             ELSE Throw("NavigationError")
  /\ UNCHANGED <<procVars, browser, session, dom, loopVars, caught, inspVars,
                 probe, closeAttempts, exitVars>>

\* await browser.pause(3000)
PagePause ==
  /\ pc = "page_pause"
  /\ attempted' = attempted \cup {"page_pause"}
  /\ \E ok \in BOOLEAN :
       IF ok THEN pc' = "probe" /\ UNCHANGED pending
             ELSE Throw("PagePauseError")
  /\ UNCHANGED <<procVars, browser, session, dom, loopVars, caught, inspVars,
                 probe, closeAttempts, exitVars>>

\* the probe outside a try: a throwing probe fails the run
PageProbeFatal ==
  /\ pc = "probe"
  /\ attempted' = attempted \cup {"probe"}
  /\ \E res \in {"found", "absent", "throws"} :
       /\ probe' = res
       /\ IF res = "throws"
            THEN Throw("ProbeError")
            ELSE pc' = "acquire" /\ UNCHANGED pending
  /\ UNCHANGED <<procVars, browser, session, dom, loopVars, caught, inspVars,
                 closeAttempts, exitVars>>

\* try { $('#nav-main'); isExisting() } catch (e) { }
PageProbe ==
  /\ pc = "probe"
  /\ attempted' = attempted \cup {"probe"}
  /\ \E res \in {"found", "absent", "throws"} : probe' = res
  /\ pc' = "acquire"
  /\ UNCHANGED <<procVars, browser, session, dom, loopVars, pending, caught,
                 inspVars, closeAttempts, exitVars>>

\* ------------------------------------------------------ the selector loop
\* the loop trying the abandoned selector again
AbandonRetries(fault) ==
  /\ status' = [status EXCEPT ![idx] = "Abandoned"]
  /\ faulted' = IF fault THEN faulted \cup {idx} ELSE faulted
  /\ idx' = idx
  /\ pc' = "acquire"

\* the loop stepping over the selector that follows an abandoned one
AbandonSkipsNext(fault) ==
  /\ status' = [status EXCEPT ![idx] = "Abandoned"]
  /\ faulted' = IF fault THEN faulted \cup {idx} ELSE faulted
  /\ idx' = idx + 2
  /\ pc' = IF idx + 2 <= NumSelectors THEN "acquire" ELSE "found_check"

\* the loop body without its catch: a throw leaves the loop for the catch
\* block of the run
AbandonPropagates(fault) ==
  /\ status' = [status EXCEPT ![idx] = "Abandoned"]
  /\ faulted' = IF fault THEN faulted \cup {idx} ELSE faulted
  /\ idx' = IF fault THEN idx ELSE idx + 1
  /\ pc' = IF fault THEN "catch"
           ELSE IF idx < NumSelectors THEN "acquire" ELSE "found_check"

\* the attempt at selectors[idx] ends without a confirmed element: through
\* the catch/continue of the loop body, or by falling off its end
Abandon(fault) ==
  /\ status' = [status EXCEPT ![idx] = "Abandoned"]
  /\ faulted' = IF fault THEN faulted \cup {idx} ELSE faulted
  /\ idx' = idx + 1
  /\ pc' = IF idx < NumSelectors THEN "acquire" ELSE "found_check"

\* searchBar = await browser.$(selector)
Acquire ==
  /\ pc = "acquire"
  /\ attempted' = attempted \cup {"query"}
  /\ tries' = [tries EXCEPT ![idx] = @ + 1]
  /\ \E ok \in BOOLEAN :
       IF ok
         THEN /\ searchBar' = idx
              /\ pc' = "wait_exist"
              /\ UNCHANGED <<idx, status, faulted>>
         ELSE /\ Abandon(TRUE)
              /\ UNCHANGED searchBar
  /\ UNCHANGED <<procVars, browser, session, dom, searchBarFound, pending,
                 caught, inspVars, probe, closeAttempts, exitVars>>

\* the wait with the confirmation right after it: the selector is taken as
\* found as soon as waitForExist returns, without scroll or re-check
WaitForExistConfirms ==
  /\ pc = "wait_exist"
  /\ attempted' = attempted \cup {"wait"}
  /\ \E ok \in BOOLEAN :
       IF ok /\ idx \in dom
         THEN /\ status' = [status EXCEPT ![idx] = "Confirmed"]
              /\ searchBarFound' = TRUE
              /\ pc' = "found_check"
              /\ UNCHANGED <<idx, faulted>>
         ELSE /\ Abandon(idx \in dom)
              /\ UNCHANGED searchBarFound
  /\ UNCHANGED <<tries, procVars, browser, session, dom, searchBar, pending,
                 caught, inspVars, probe, closeAttempts, exitVars>>

\* await searchBar.waitForExist({ timeout: 10000 })
WaitForExist ==
  /\ pc = "wait_exist"
  /\ attempted' = attempted \cup {"wait"}
  /\ \E ok \in BOOLEAN :
       IF ok /\ idx \in dom
         THEN /\ status' = [status EXCEPT ![idx] = "Existing"]
              /\ pc' = "scroll"
              /\ UNCHANGED <<idx, faulted>>
         ELSE Abandon(idx \in dom)
  /\ UNCHANGED <<tries, procVars, browser, session, dom, searchBar, searchBarFound,
                 pending, caught, inspVars, probe, closeAttempts, exitVars>>

\* the scroll outside the loop's try: its throw goes to the catch block of
\* the run
ScrollIntoViewPropagates ==
  /\ pc = "scroll"
  /\ attempted' = attempted \cup {"scroll"}
  /\ \E ok \in BOOLEAN :
       IF ok
         THEN /\ status' = [status EXCEPT ![idx] = "ScrollAttempted"]
              /\ pc' = "scroll_pause"
              /\ UNCHANGED <<idx, faulted, pending>>
         ELSE /\ Throw("ScrollError")
                          /\ UNCHANGED <<idx, status, faulted>>
  /\ UNCHANGED <<tries, procVars, browser, session, dom, searchBar,
                 searchBarFound, caught, inspVars, probe, closeAttempts,
                 exitVars>>

\* await browser.execute(el => el.scrollIntoView(...), searchBar)
ScrollIntoView ==
  /\ pc = "scroll"
  /\ attempted' = attempted \cup {"scroll"}
  /\ \E ok \in BOOLEAN :
       IF ok
         THEN /\ status' = [status EXCEPT ![idx] = "ScrollAttempted"]
              /\ pc' = "scroll_pause"
              /\ UNCHANGED <<idx, faulted>>
         ELSE Abandon(TRUE)
  /\ UNCHANGED <<tries, procVars, browser, session, dom, searchBar, searchBarFound,
                 pending, caught, inspVars, probe, closeAttempts, exitVars>>

\* await browser.pause(1000)
ScrollPause ==
  /\ pc = "scroll_pause"
  /\ attempted' = attempted \cup {"scroll_pause"}
  /\ \E ok \in BOOLEAN :
       IF ok
         THEN /\ pc' = "recheck"
              /\ UNCHANGED <<idx, status, faulted>>
         ELSE Abandon(TRUE)
  /\ UNCHANGED <<tries, procVars, browser, session, dom, searchBar, searchBarFound,
                 pending, caught, inspVars, probe, closeAttempts, exitVars>>

\* the re-check waiting again for an element that is gone, with no bound on
\* the number of waits
RecheckRetriesWait ==
  /\ pc = "recheck"
  /\ attempted' = attempted \cup {"recheck"}
  /\ \E res \in {"exists", "gone", "throws"} :
       CASE res = "exists" ->
              /\ searchBarFound' = TRUE
              /\ status' = [status EXCEPT ![idx] = "Confirmed"]
              /\ pc' = "found_check"
              /\ UNCHANGED <<idx, faulted>>
         [] res = "gone" ->
              /\ status' = [status EXCEPT ![idx] = "Pending"]
              /\ pc' = "wait_exist"
              /\ UNCHANGED <<idx, faulted, searchBarFound>>
         [] OTHER ->
              /\ Abandon(TRUE)
              /\ UNCHANGED searchBarFound
  /\ UNCHANGED <<tries, procVars, browser, session, dom, searchBar, pending,
                 caught, inspVars, probe, closeAttempts, exitVars>>

\* the re-check without the break: the loop goes on after a confirmation
RecheckNoBreak ==
  /\ pc = "recheck"
  /\ attempted' = attempted \cup {"recheck"}
  /\ \E res \in {"exists", "gone", "throws"} :
       IF res = "exists"
         THEN /\ searchBarFound' = TRUE
              /\ status' = [status EXCEPT ![idx] = "Confirmed"]
              /\ idx' = idx + 1
              /\ pc' = IF idx < NumSelectors THEN "acquire" ELSE "found_check"
              /\ UNCHANGED faulted
         ELSE /\ Abandon(TRUE)
              /\ UNCHANGED searchBarFound
  /\ UNCHANGED <<tries, procVars, browser, session, dom, searchBar, pending, caught,
                 inspVars, probe, closeAttempts, exitVars>>

\* const exists = await searchBar.isExisting();
\* if (exists) { searchBarFound = true; break; }
Recheck ==
  /\ pc = "recheck"
  /\ attempted' = attempted \cup {"recheck"}
  /\ \E res \in {"exists", "gone", "throws"} :
       IF res = "exists"
         THEN /\ searchBarFound' = TRUE
              /\ status' = [status EXCEPT ![idx] = "Confirmed"]
              /\ pc' = "found_check"
              /\ UNCHANGED <<idx, faulted>>
         ELSE /\ Abandon(TRUE)
              /\ UNCHANGED searchBarFound
  /\ UNCHANGED <<tries, procVars, browser, session, dom, searchBar, pending, caught,
                 inspVars, probe, closeAttempts, exitVars>>

\* the not-found test with && in place of ||
NotFoundBothMissing(found, handle) == ~found /\ handle = NoElement

\* the not-found test left out: the run goes on to the inspection whatever
\* the loop found
NotFoundNever(found, handle) == FALSE

\* the not-found test that looks at the handle only
NotFoundHandleOnly(found, handle) == handle = NoElement

\* if (!searchBarFound || !searchBar)
NotFound(found, handle) == ~found \/ handle = NoElement

\* if (...) { throw new Error('Search bar element not found on the page') }
FoundCheck ==
  /\ pc = "found_check"
  /\ IF NotFound(searchBarFound, searchBar)
       THEN Throw("ElementNotFoundError")
       ELSE pc' = "visibility" /\ UNCHANGED pending
  /\ UNCHANGED <<procVars, browser, session, dom, loopVars, caught, inspVars,
                 probe, attempted, closeAttempts, exitVars>>

\* ------------------------------------------------------------ inspection
\* the visibility check outside a try: a throwing isDisplayed fails the run
VisibilityCheckFatal ==
  /\ pc = "visibility"
  /\ attempted' = attempted \cup {"visibility"}
  /\ inspected' = searchBar
  /\ \E res \in {"visible", "hidden", "throws"} :
       /\ isVisible' = res
       /\ IF res = "throws"
            THEN Throw("InspectionError")
            ELSE pc' = "attributes" /\ UNCHANGED pending
  /\ UNCHANGED <<procVars, browser, session, dom, loopVars, caught,
                 attrsRead, attrsLogged, attrValue, reported, probe,
                 closeAttempts, exitVars>>

\* try { isVisible = await searchBar.isDisplayed(); ... } catch (e) { ... }
VisibilityCheck ==
  /\ pc = "visibility"
  /\ attempted' = attempted \cup {"visibility"}
  /\ \E res \in {"visible", "hidden", "throws"} : isVisible' = res
  /\ inspected' = searchBar
  /\ pc' = "attributes"
  /\ UNCHANGED <<procVars, browser, session, dom, loopVars, pending, caught,
                 attrsRead, attrsLogged, attrValue, reported, probe,
                 closeAttempts, exitVars>>

\* value || 'N/A': null and the empty string are both falsy
OrNA(value) == IF value \in {"null", ""} THEN "N/A" ELSE value

\* the attribute reads outside a try: a throwing getAttribute fails the run
AttributesFatal ==
  /\ pc = "attributes"
  /\ attempted' = attempted \cup {"attributes"}
  /\ \E failAt \in 0..Len(ReadOrder), vals \in [Attrs -> AttrValues] :
       LET pos(a) == CHOOSE k \in 1..Len(ReadOrder) : ReadOrder[k] = a
           returned(a) == failAt = 0 \/ pos(a) < failAt
       IN
       /\ attrsRead' = IF failAt = 0 THEN Len(ReadOrder) ELSE failAt - 1
       /\ attrsLogged' = (failAt = 0)
       /\ attrValue' = [a \in Attrs |->
                          IF returned(a) THEN vals[a]
                          ELSE IF pos(a) = failAt THEN "throws" ELSE "unread"]
       /\ reported' = [a \in Attrs |->
                         IF failAt = 0 THEN OrNA(vals[a]) ELSE "unlogged"]
       /\ IF failAt = 0
            THEN pc' = "hold" /\ UNCHANGED pending
            ELSE Throw("InspectionError")
  /\ UNCHANGED <<procVars, browser, session, dom, loopVars, caught,
                 isVisible, inspected, probe, closeAttempts, exitVars>>

\* try { getAttribute x 3; console.log x 3 } catch (e) { ... }
\* failAt = 0: all three reads return; failAt = k: the k-th read throws, the
\* later reads are not made and nothing is printed but the catch message
Attributes ==
  /\ pc = "attributes"
  /\ attempted' = attempted \cup {"attributes"}
  /\ \E failAt \in 0..Len(ReadOrder), vals \in [Attrs -> AttrValues] :
       LET pos(a) == CHOOSE k \in 1..Len(ReadOrder) : ReadOrder[k] = a
           returned(a) == failAt = 0 \/ pos(a) < failAt
       IN
       /\ attrsRead' = IF failAt = 0 THEN Len(ReadOrder) ELSE failAt - 1
       /\ attrsLogged' = (failAt = 0)
       /\ attrValue' = [a \in Attrs |->
                          IF returned(a) THEN vals[a]
                          ELSE IF pos(a) = failAt THEN "throws" ELSE "unread"]
       /\ reported' = [a \in Attrs |->
                         IF failAt = 0 THEN OrNA(vals[a]) ELSE "unlogged"]
  /\ pc' = "hold"
  /\ UNCHANGED <<procVars, browser, session, dom, loopVars, pending, caught,
                 isVisible, inspected, probe, closeAttempts, exitVars>>

\* await browser.pause(30000)
ObservationHold ==
  /\ pc = "hold"
  /\ attempted' = attempted \cup {"hold"}
  /\ \E ok \in BOOLEAN :
       IF ok THEN pc' = "finally_close" /\ UNCHANGED pending
             ELSE Throw("HoldError")
  /\ UNCHANGED <<procVars, browser, session, dom, loopVars, caught, inspVars,
                 probe, closeAttempts, exitVars>>

\* ------------------------------------------------------- catch / finally
\* the catch block without its rethrow: the error is logged and dropped
CatchSwallows ==
  /\ pc = "catch"
  /\ caught' = pending
  /\ pending' = NoError
  /\ pc' = "finally_close"
  /\ UNCHANGED <<procVars, browser, session, dom, loopVars, inspVars, probe,
                 attempted, closeAttempts, exitVars>>

\* the catch block followed by the observation hold
CatchThenHold ==
  /\ pc = "catch"
  /\ caught' = pending
  /\ pc' = IF browser THEN "hold" ELSE "finally_close"
  /\ UNCHANGED <<procVars, browser, session, dom, loopVars, pending,
                 inspVars, probe, attempted, closeAttempts, exitVars>>

\* catch (error) { console.error(...); throw error; }
Catch ==
  /\ pc = "catch"
  /\ caught' = pending
  /\ pc' = "finally_close"
  /\ UNCHANGED <<procVars, browser, session, dom, loopVars, pending,
                 inspVars, probe, attempted, closeAttempts, exitVars>>

\* the close step without the `if (browser)` guard: deleteSession is
\* requested whether or not a session was opened
FinallyCloseNoGuard ==
  /\ pc = "finally_close"
  /\ attempted' = attempted \cup {"close"}
  /\ closeAttempts' = closeAttempts + 1
  /\ \E ok \in BOOLEAN :
       IF ok /\ browser
         THEN /\ session' = "Closed"
              /\ pc' = "finally_stop"
              /\ UNCHANGED pending
         ELSE /\ pending' = "SessionCloseError"
              /\ pc' = "returned"
              /\ UNCHANGED session
  /\ UNCHANGED <<procVars, browser, dom, loopVars, caught, inspVars, probe,
                 exitVars>>

\* the close step placed before the attribute extraction: the element handle
\* is read after a successful deleteSession
FinallyCloseThenInspect ==
  /\ pc = "finally_close"
  /\ IF browser /\ closeAttempts = 0
       THEN /\ attempted' = attempted \cup {"close"}
            /\ closeAttempts' = closeAttempts + 1
            /\ \E ok \in BOOLEAN :
                 IF ok
                   THEN /\ session' = "Closed"
                        /\ pc' = IF searchBarFound /\ pending = NoError
                                   THEN "attributes" ELSE "finally_stop"
                        /\ UNCHANGED pending
                   ELSE /\ pending' = "SessionCloseError"
                        /\ pc' = "returned"
                        /\ UNCHANGED session
       ELSE /\ pc' = "finally_stop"
            /\ UNCHANGED <<attempted, closeAttempts, session, pending>>
  /\ UNCHANGED <<procVars, browser, dom, loopVars, caught, inspVars, probe,
                 exitVars>>

\* the close step with the deleteSession error caught and ignored, so that
\* the stop step follows a failed close
FinallyCloseSwallow ==
  /\ pc = "finally_close"
  /\ IF browser
       THEN /\ attempted' = attempted \cup {"close"}
            /\ closeAttempts' = closeAttempts + 1
            /\ \E ok \in BOOLEAN :
                 session' = IF ok THEN "Closed" ELSE session
       ELSE UNCHANGED <<attempted, closeAttempts, session>>
  /\ pc' = "finally_stop"
  /\ UNCHANGED <<procVars, browser, dom, loopVars, pending, caught, inspVars,
                 probe, exitVars>>

\* finally { if (browser) { await browser.deleteSession(); ... }
\* A rejected deleteSession leaves the finally block at once: its error
\* becomes the error the function completes with, and the rest of the block
\* (stopChromeDriver) does not run.  The request having failed, the session
\* is not known to be closed.
FinallyClose ==
  /\ pc = "finally_close"
  /\ IF browser
       THEN /\ attempted' = attempted \cup {"close"}
            /\ closeAttempts' = closeAttempts + 1
            /\ \E ok \in BOOLEAN :
                 IF ok
                   THEN /\ session' = "Closed"
                        /\ pc' = "finally_stop"
                        /\ UNCHANGED pending
                   ELSE /\ pending' = "SessionCloseError"
                        /\ pc' = "returned"
                        /\ UNCHANGED session
       ELSE /\ pc' = "finally_stop"
            /\ UNCHANGED <<attempted, closeAttempts, session, pending>>
  /\ UNCHANGED <<procVars, browser, dom, loopVars, caught, inspVars, probe,
                 exitVars>>

\* ... await stopChromeDriver(); }
FinallyStop ==
  /\ pc = "finally_stop"
  /\ attempted' = attempted \cup {"stop"}
  /\ \E killThrows \in BOOLEAN : ApplyStop(killThrows)
  /\ pending' = IF stopRaised' THEN "ServerStopError" ELSE pending
  /\ pc' = "returned"
  /\ UNCHANGED <<startCalls, browser, session, dom, loopVars, caught,
                 inspVars, probe, closeAttempts, exitVars>>

\* ------------------------------------------------------------- top level
\* an exit code of 0 whatever the promise did
ExitCodeZero(err) == 0

\* .then(() => process.exit(0)).catch((error) => process.exit(1))
ExitCodeFor(err) == IF err = NoError THEN 0 ELSE 1

\* the promise of testAmazonSearchBar() settles and the process exits
TopLevel ==
  /\ pc = "returned"
  /\ exitCode' = ExitCodeFor(pending)
  /\ exitCount' = exitCount + 1
  /\ pc' = "exited"
  /\ UNCHANGED <<procVars, browser, session, dom, loopVars, pending, caught,
                 inspVars, probe, attempted, closeAttempts>>

Next ==
  \/ StartChromeDriver
  \/ StartSettle
  \/ OpenSession
  \/ Navigate
  \/ PagePause
  \/ PageProbe
  \/ Acquire
  \/ WaitForExist
  \/ ScrollIntoView
  \/ ScrollPause
  \/ Recheck
  \/ FoundCheck
  \/ VisibilityCheck
  \/ Attributes
  \/ ObservationHold
  \/ Catch
  \/ FinallyClose
  \/ FinallyStop
  \/ TopLevel

Spec == Init /\ [][Next]_vars

\* the run with every awaited command eventually returning or throwing: a
\* step that can be taken is eventually taken
FairSpec == Spec /\ WF_vars(Next)

\* --------------------------------------------------------- stop harness
\* startChromeDriver and stopChromeDriver called directly, any number of
\* times up to the bounds, to examine stopChromeDriver on its own
InitStop ==
  /\ pc = "harness"
  /\ InitRun({})

\* await startChromeDriver(), the whole call
HarnessStart ==
  /\ pc = "harness"
  /\ startCalls < MaxStartCalls
  /\ server \in {"Unstarted", "StartFailed", "Stopped"}
  /\ startCalls' = startCalls + 1
  /\ \E ok \in BOOLEAN, pid \in Pids :
       IF ok
         THEN chromedriverProcess' = pid /\ server' = "Running"
         ELSE server' = "StartFailed" /\ UNCHANGED chromedriverProcess
  /\ UNCHANGED <<pc, browser, session, dom, loopVars, pending, caught,
                 inspVars, probe, attempted, closeAttempts, stopCalls,
                 killCount, killErrors, stopRaised, exitVars>>

\* await stopChromeDriver()
HarnessStop ==
  /\ pc = "harness"
  /\ stopCalls < MaxStopCalls
  /\ \E killThrows \in BOOLEAN : ApplyStop(killThrows)
  /\ UNCHANGED <<pc, startCalls, browser, session, dom, loopVars, pending,
                 caught, inspVars, probe, attempted, closeAttempts, exitVars>>

NextStop ==
  \/ HarnessStart
  \/ HarnessStop

SpecStop == InitStop /\ [][NextStop]_vars

TypeOK ==
  /\ chromedriverProcess \in {NullProc} \cup Pids
  /\ browser \in BOOLEAN
  /\ idx \in 1..(NumSelectors + 1)
  /\ searchBar \in {NoElement} \cup Selectors
  /\ exitCode \in {-1, 0, 1}

\* ================================================================ claims
Min(S) == CHOOSE m \in S : \A n \in S : m <= n

\* the function testAmazonSearchBar has completed (its promise has settled)
RunEnded == pc \in {"returned", "exited"}

\* the selector loop was entered and has been left
LoopExited ==
  /\ "query" \in attempted
  /\ pc \notin {"acquire", "wait_exist", "scroll", "scroll_pause", "recheck"}

\* selectors whose element exists and whose attempt no command cut short
Yielding == {s \in dom : s \notin faulted}

AllAbandoned == \A s \in Selectors : status[s] = "Abandoned"

NotFoundRaised ==
  pending = "ElementNotFoundError" \/ caught = "ElementNotFoundError"

\* C1: when the run has ended, session close was attempted if a session was
\* opened, and server stop was attempted, also when the close request failed.
C1_CleanupAlwaysAttempted ==
  RunEnded =>
    /\ browser => "close" \in attempted
    /\ "stop" \in attempted

\* C2: when a stage of the run failed, the error the run completes with is
\* that stage's error, whatever happened during cleanup.
C2_OriginalFailureReported ==
  (RunEnded /\ caught # NoError) => pending = caught

\* C3: a run in which no stage threw exits with code 0, whatever happened
\* during cleanup.
C3_CleanupNeverEscalated ==
  (pc = "exited" /\ caught = NoError) => exitCode = 0

\* C4: the termination signal is never sent while the session is Open, and
\* server stop is never attempted before the close of an opened session.
C4_SessionNotOutliveServer ==
  /\ killCount > 0 => session # "Open"
  /\ ("stop" \in attempted /\ browser) => "close" \in attempted
  /\ pc = "finally_close" => "stop" \notin attempted

C4_Witness ==
  /\ killCount = 1
  /\ session = "Closed"
  /\ closeAttempts = 1
  /\ "stop" \in attempted

\* C5: once the selector loop is over, if some selector yields an existing
\* element then the result is the handle of the first such selector in list
\* order, it is confirmed, and the not-found error is not raised.
C5_FirstYieldingWins ==
  (LoopExited /\ Yielding # {}) =>
    /\ searchBarFound
    /\ searchBar = Min(Yielding)
    /\ status[searchBar] = "Confirmed"
    /\ ~NotFoundRaised

C5_Witness ==
  /\ pc = "visibility"
  /\ dom = {2, 3, 5}
  /\ 2 \in faulted
  /\ searchBar = 3

\* C6: the not-found error is raised exactly when every selector has been
\* abandoned: never while one is untried or confirmed, and always once the
\* not-found test has run with all of them abandoned.
C6_NotFoundIffAllFailed ==
  /\ NotFoundRaised => AllAbandoned
  /\ (LoopExited /\ pc # "found_check" /\ AllAbandoned) => NotFoundRaised

C6_Witness ==
  /\ caught = "ElementNotFoundError"
  /\ searchBar = NumSelectors
  /\ AllAbandoned

\* C7: the process exits at most once; before the exit no code is reported,
\* and after it the code is 0 if the run completed without an error and 1
\* if it completed with one.
C7_ExactlyOneOutcome ==
  /\ exitCount <= 1
  /\ pc # "exited" => (exitCount = 0 /\ exitCode = -1)
  /\ pc = "exited" =>
       /\ exitCount = 1
       /\ (pending = NoError) => exitCode = 0
       /\ (pending # NoError) => exitCode = 1

C7_Witness ==
  /\ pc = "exited"
  /\ exitCode = 1
  /\ pending = "NavigationError"

\* C8: for a server that was started once, the calls of stop send the
\* termination signal once: a second call sends nothing.
C8_StopIdempotent ==
  (startCalls = 1 /\ chromedriverProcess # NullProc) => killCount <= 1

\* C9: when server start fails, session open, navigation and session close
\* are never attempted, stop sends no signal and raises nothing, and the run
\* ends with the start error and exit code 1 after one call of stop.
C9_StartFailure ==
  /\ (pending = "ServerStartError" \/ caught = "ServerStartError") =>
       /\ attempted \cap {"open", "navigate", "close"} = {}
       /\ server = "StartFailed"
       /\ killCount = 0
       /\ ~stopRaised
  /\ (pc = "exited" /\ caught = "ServerStartError") =>
       /\ pending = "ServerStartError"
       /\ exitCode = 1
       /\ stopCalls = 1

C9_Witness ==
  /\ pc = "exited"
  /\ caught = "ServerStartError"
  /\ "stop" \in attempted

\* C10: stop never throws to its caller: after any call, also one whose
\* process.kill failed, no stop error is raised and the run goes on to
\* complete with the error it had before the call.
C10_StopNeverRaises ==
  /\ ~stopRaised
  /\ pending # "ServerStopError"
  /\ (RunEnded /\ stopCalls > 0) => pending = caught

C10_Witness ==
  /\ pc = "returned"
  /\ killErrors = 1
  /\ stopCalls = 1

\* positions inside the body of the selector loop
InLoop == {"acquire", "wait_exist", "scroll", "scroll_pause", "recheck"}

\* the position the loop goes to when the attempt at selectors[idx] is over
NextAttempt == IF idx < NumSelectors THEN "acquire" ELSE "found_check"

\* a step taken inside the loop body stays in the loop or leaves it for the
\* not-found test, sets no error, and when it abandons the selector moves on
LoopStepContained ==
  pc \in InLoop =>
    /\ pc' \in InLoop \cup {"found_check"}
    /\ pending' = NoError
    /\ status'[idx] = "Abandoned" =>
         (idx' = idx + 1 /\ pc' = NextAttempt /\ searchBarFound' = FALSE)

\* C11: a step of a selector's attempt never leaves the loop for the catch
\* block of the run and never sets an error; when it abandons the selector,
\* the loop moves to the next selector, or to the not-found test after the
\* last one.
C11_ThrowAbandonsOnlyStrategy == [][LoopStepContained]_vars

C11_Witness ==
  /\ pc = "wait_exist"
  /\ idx = 3
  /\ {1, 2} \subseteq dom
  /\ faulted = {1, 2}
  /\ status[2] = "Abandoned"

\* a step at the scroll command or at its settle pause keeps the selector's
\* attempt going, towards the re-check
ScrollStepKeepsStrategy ==
  pc \in {"scroll", "scroll_pause"} =>
    (idx' = idx /\ pc' \in {"scroll_pause", "recheck"})

\* C12 (as claimed): a failing scroll command or settle pause does not end
\* its selector's attempt: the attempt still proceeds to the re-check.
C12_ScrollNonFatalForStrategy == [][ScrollStepKeepsStrategy]_vars

\* a scroll command or settle pause that fails abandons its selector without
\* a re-check and without an error: the loop moves to the next selector, or
\* to the not-found test after the last one
ScrollFailureStep ==
  (pc \in {"scroll", "scroll_pause"} /\ pc' \notin {"scroll_pause", "recheck"})
    => /\ status'[idx] = "Abandoned"
       /\ idx \in faulted'
       /\ idx' = idx + 1
       /\ pc' = NextAttempt
       /\ pending' = NoError
       /\ searchBarFound' = FALSE

\* C12 (amended): a failing scroll command or settle pause is not fatal for
\* the locate operation, but it is for its selector: the selector is
\* abandoned without a re-check and the next one is attempted.
C12_ScrollFailureAbandons == [][ScrollFailureStep]_vars

\* the first selector's element existed and its scroll command was issued,
\* no settle pause followed, and the loop is at the second selector
C12_Witness ==
  /\ pc = "acquire"
  /\ idx = 2
  /\ 1 \in dom
  /\ status[1] = "Abandoned"
  /\ "scroll" \in attempted
  /\ "scroll_pause" \notin attempted

Confirmed == {s \in Selectors : status[s] = "Confirmed"}
InProgress == {s \in Selectors : status[s] \in {"Existing", "ScrollAttempted"}}

\* C13: selectors are attempted one at a time in list order: during the loop
\* every selector before the current one is abandoned and every one after
\* it is untried; when the search succeeded exactly one selector is
\* confirmed, the earlier ones are abandoned and no later one was attempted.
C13_SequentialShortCircuit ==
  /\ Cardinality(Confirmed) <= 1
  /\ Cardinality(InProgress) <= 1
  /\ pc \in InLoop =>
       /\ Confirmed = {}
       /\ InProgress \subseteq {idx}
       /\ \A s \in Selectors :
            /\ s < idx => status[s] = "Abandoned"
            /\ s > idx => (status[s] = "Pending" /\ tries[s] = 0)
  /\ searchBarFound =>
       /\ Confirmed = {searchBar}
       /\ InProgress = {}
       /\ \A s \in Selectors :
            /\ s < searchBar => status[s] = "Abandoned"
            /\ s > searchBar => (status[s] = "Pending" /\ tries[s] = 0)

C13_Witness ==
  /\ pc = "visibility"
  /\ searchBar = 3
  /\ status = [s \in Selectors |->
                IF s < 3 THEN "Abandoned"
                ELSE IF s = 3 THEN "Confirmed" ELSE "Pending"]

\* C14: no selector is attempted twice: each one has at most one attempt
\* begun, and exactly one once it is abandoned or confirmed.
C14_NoRetry ==
  \A s \in Selectors :
    /\ tries[s] <= 1
    /\ status[s] # "Pending" => tries[s] = 1
    /\ (status[s] \in {"Abandoned", "Confirmed"} /\ pc \in InLoop) => s < idx

C14_Witness ==
  /\ pc = "found_check"
  /\ searchBarFound
  /\ searchBar = NumSelectors
  /\ \A s \in Selectors : tries[s] = 1

\* C15: inspection never fails the run: no error is pending or caught while
\* and right after the element is inspected, an error that follows an
\* inspection comes from the observation hold or from session close only,
\* and a run whose hold and close succeed exits with 0 whatever the
\* visibility check and the attribute reads did.
C15_InspectionAdvisory ==
  /\ pc \in {"attributes", "hold"} => (pending = NoError /\ caught = NoError)
  /\ "visibility" \in attempted =>
       /\ pending \in {NoError, "HoldError", "SessionCloseError"}
       /\ caught \in {NoError, "HoldError"}
  /\ (pc = "exited" /\ "hold" \in attempted /\ caught = NoError
        /\ session = "Closed") => exitCode = 0

C15_Witness ==
  /\ pc = "exited"
  /\ exitCode = 0
  /\ isVisible = "throws"
  /\ attrValue["placeholder"] = "throws"

\* C16: after the inspection every attribute has had its read attempted, and
\* every attribute whose read returned has been reported, whatever happened
\* to the reads of the other attributes.
C16_AttributesIndependent ==
  pc = "hold" =>
    \A a \in Attrs :
      /\ attrValue[a] # "unread"
      /\ attrValue[a] \in AttrValues => reported[a] # "unlogged"

\* C17: an absent attribute and an attribute that is the empty string are
\* never reported as the same value.
C17_MissingDistinctFromEmpty ==
  \A a, b \in Attrs :
    (attrsLogged /\ attrValue[a] = "null" /\ attrValue[b] = "")
      => reported[a] # reported[b]

\* C18: a run that ended with the not-found error after a successful
\* navigation has had session close and then server stop run, and exits
\* with code 1.
C18_NotFoundFullCleanup ==
  (pc = "exited" /\ caught = "ElementNotFoundError") =>
    /\ "close" \in attempted
    /\ "stop" \in attempted
    /\ exitCode = 1

\* C19: the observation hold is entered only by a run whose search
\* succeeded and in which nothing failed, and before any teardown step; a
\* run that failed at a stage never holds, and a run whose search succeeded
\* has held by the time session close is attempted.
C19_HoldOnlyOnSuccessBeforeTeardown ==
  /\ pc = "hold" =>
       /\ searchBarFound
       /\ pending = NoError /\ caught = NoError
       /\ attempted \cap {"close", "stop"} = {}
  /\ "hold" \in attempted => searchBarFound
  /\ caught \notin {NoError, "HoldError"} => "hold" \notin attempted
  /\ (searchBarFound /\ pc \in {"finally_close", "finally_stop", "returned",
                                   "exited"}) => "hold" \in attempted

C19_Witness ==
  /\ pc = "finally_stop"
  /\ "hold" \in attempted
  /\ session = "Closed"
  /\ caught = NoError

\* C20: once session close has been attempted the run is at the stop step or
\* past it: no element query, wait, scroll, pause, visibility check or
\* attribute read follows the close request.
C20_NoUseAfterClose ==
  "close" \in attempted => pc \in {"finally_stop", "returned", "exited"}

C20_Witness ==
  /\ pc = "finally_stop"
  /\ closeAttempts = 1
  /\ attrsLogged
  /\ isVisible = "visible"

\* C21: deleteSession is requested at most once, and only for a session that
\* was opened; while no session was opened no close request is made and no
\* close error arises.
C21_CloseOnceOnlyIfOpened ==
  /\ closeAttempts <= 1
  /\ ("close" \in attempted) = (closeAttempts = 1)
  /\ closeAttempts = 1 => (browser /\ session \in {"Open", "Closed"})
  /\ ~browser =>
       /\ closeAttempts = 0
       /\ session \in {"Unopened", "OpenFailed"}
       /\ pending # "SessionCloseError"

C21_Witness ==
  /\ pc = "exited"
  /\ caught = "SessionOpenError"
  /\ closeAttempts = 0
  /\ stopCalls = 1

ClaimedMoves ==
  { <<"Pending", "Existing">>, <<"Existing", "ScrollAttempted">>,
    <<"ScrollAttempted", "Confirmed">>, <<"Pending", "Abandoned">> }

\* the same, with the abandonment of an attempt whose element existed
ActualMoves ==
  ClaimedMoves \cup
  { <<"Existing", "Abandoned">>, <<"ScrollAttempted", "Abandoned">> }

StatusMovesWithin(moves) ==
  \A s \in Selectors :
    status'[s] # status[s] => <<status[s], status'[s]>> \in moves

ClaimedMoveStep == StatusMovesWithin(ClaimedMoves)
ActualMoveStep == StatusMovesWithin(ActualMoves)

\* C23 (as claimed): an attempt moves only along Pending -> Existing ->
\* ScrollAttempted -> Confirmed or Pending -> Abandoned, so an attempt that
\* reached Existing is never abandoned.
C23_ExistingNeverAbandoned == [][ClaimedMoveStep]_vars

\* C23 (amended): an attempt moves only along Pending -> Existing ->
\* ScrollAttempted -> Confirmed, or to Abandoned from Pending, Existing or
\* ScrollAttempted; Confirmed and Abandoned are final.
C23_MovesWithAbandonAfterExisting == [][ActualMoveStep]_vars

\* the first selector's element existed and was scrolled to, its settle
\* pause was begun, no re-check was made, and the selector is abandoned
C23_Witness ==
  /\ pc = "acquire"
  /\ idx = 2
  /\ status[1] = "Abandoned"
  /\ "scroll_pause" \in attempted
  /\ "recheck" \notin attempted

\* the errors of the four stages: server start, session open, navigation,
\* locate
StageErrors ==
  {"ServerStartError", "SessionOpenError", "NavigationError",
   "ElementNotFoundError"}

\* C24 (as claimed): a run exits with 1 only because server start, session
\* open, navigation or locate failed (runs whose session close failed are
\* left aside here: they are the subject of C3).
C24_OnlyFourStagesFail ==
  (pc = "exited" /\ exitCode = 1 /\ pending # "SessionCloseError")
    => caught \in StageErrors

\* C24 (amended): a run ends with an error only because server start,
\* session open, navigation, the settle pause after navigation, locate or
\* the observation hold threw, or because session close failed; the probe
\* and the inspection never make it end with an error.
C24_FailureCauses ==
  (RunEnded /\ pending # NoError) =>
    \/ /\ caught \in StageErrors \cup {"PagePauseError", "HoldError"}
       /\ pending \in {caught, "SessionCloseError"}
    \/ /\ caught = NoError
       /\ pending = "SessionCloseError"
       /\ "hold" \in attempted

C24_Witness ==
  /\ pc = "exited"
  /\ exitCode = 1
  /\ caught = "PagePauseError"
  /\ probe = "unprobed"

\* C25: session open is attempted only against a Running server: when the
\* run is about to open the session the subprocess was spawned, the settle
\* delay has elapsed and stop was not called; a session was only ever opened
\* with a spawned server, and nothing is attempted after stop.
C25_OpenOnlyWhenRunning ==
  /\ pc = "open" =>
       /\ server = "Running"
       /\ chromedriverProcess # NullProc
       /\ stopCalls = 0 /\ killCount = 0
       /\ "open" \notin attempted
  /\ "open" \in attempted =>
       /\ chromedriverProcess # NullProc
       /\ server \in {"Running", "Stopped"}
  /\ stopCalls > 0 => pc \in {"returned", "exited"}

C25_Witness ==
  /\ pc = "navigate"
  /\ server = "Running"
  /\ session = "Open"
  /\ "open" \in attempted

\* C26: a run in which a stage failed exits with code 1 and never with 0,
\* whether session close and server stop succeed, fail or are skipped.
C26_FailedRunExitsOne ==
  /\ (RunEnded /\ caught # NoError) => pending # NoError
  /\ (pc = "exited" /\ caught # NoError) => exitCode = 1

C26_Witness ==
  /\ pc = "exited"
  /\ caught = "ElementNotFoundError"
  /\ session = "Closed"
  /\ killErrors = 1
  /\ exitCode = 1

\* C27: every run terminates: the process eventually exits, once, with a
\* code, the selector loop and the teardown being behind it.
C27_RunTerminates ==
  <>(/\ pc = "exited"
     /\ exitCount = 1
     /\ exitCode \in {0, 1}
     /\ \A s \in Selectors : tries[s] <= 1)

C27_Witness ==
  /\ pc = "exited"
  /\ exitCount = 1
  /\ \A s \in Selectors : tries[s] = 1
  /\ "stop" \in attempted

\* C28: the handle that is inspected is the one of the confirmed selector,
\* and a run whose loop ended with a handle acquired but no selector
\* confirmed raises not-found and inspects nothing.
C28_InspectedIsConfirmed ==
  /\ inspected # NoElement =>
       /\ inspected = searchBar
       /\ status[inspected] = "Confirmed"
       /\ \A s \in Selectors : s < inspected => status[s] = "Abandoned"
  /\ pc \in {"visibility", "attributes", "hold"} =>
       (searchBarFound /\ status[searchBar] = "Confirmed")
  /\ (LoopExited /\ pc # "found_check" /\ ~searchBarFound) =>
       (NotFoundRaised /\ inspected = NoElement /\ isVisible = "unchecked")

C28_Witness ==
  /\ pc = "attributes"
  /\ inspected = 2
  /\ 1 \in dom
  /\ tries[1] = 1
  /\ status[1] = "Abandoned"

\* everything the probe could affect, apart from its own record
BesidesProbe ==
  <<procVars, browser, session, dom, loopVars, pending, caught, inspVars,
    closeAttempts, exitVars>>

\* the step at the probe enters the selector loop and changes nothing but
\* the record of the probe; no other step touches that record
ProbeStepFrame ==
  /\ pc = "probe" =>
       /\ pc' = "acquire"
       /\ probe' \in {"found", "absent", "throws"}
       /\ attempted' = attempted \cup {"probe"}
       /\ BesidesProbe' = BesidesProbe
  /\ pc # "probe" => probe' = probe

\* C29: whatever the probe finds, or if it throws, the selector loop is
\* entered next and in the state the run had before the probe.
C29_ProbeHasNoEffect == [][ProbeStepFrame]_vars

C29_Witness ==
  /\ pc = "exited"
  /\ probe = "throws"
  /\ exitCode = 0

====
